---- MODULE Spec2Model ----
(***************************************************************************)
(* Author-name normalization and self-citation classification of           *)
(* src/main.py.  A Python str is a sequence of one-character strings; a    *)
(* Python list is a sequence.  A call's outcome is a record [kind, val]:   *)
(* kind "str", "None", "list" or "bool" for a returned value, and          *)
(* "IndexError" where the interpreter would raise.                         *)
(***************************************************************************)
EXTENDS Integers, Sequences, FiniteSets, TLC

VARIABLES pc, author_string, normalized, normalized_authors,
          row, last_author_is_self_source, is_self_citation,
          author_publications, pub_index, fetch, all_citations_data,
          citations_df, report, requests

\* The run of google_scholar_spider: the publications found, the loop
\* position, the frame of fetch_citations_for_paper, the rows collected, the
\* classified table and what was printed.  requests records every page
\* request made, with what came back.
spider_vars == <<author_publications, pub_index, fetch, all_citations_data,
                 citations_df, report, requests>>

vars == <<pc, author_string, normalized, normalized_authors,
          row, last_author_is_self_source, is_self_citation,
          author_publications, pub_index, fetch, all_citations_data,
          citations_df, report, requests>>

(***************************************************************************)
(* Bounds of the explored inputs.                                          *)
(***************************************************************************)
MaxLen == 4

MaxAuthors == 3

(***************************************************************************)
(* Characters.                                                             *)
(***************************************************************************)
Whitespace == {" ", "\t"}

Digits == {"0", "1", "2", "3", "4", "5", "6", "7", "8", "9"}

TrailingJunk == {"*", "."} \cup Digits \cup {" "}

UpperToLower ==
  ("A" :> "a") @@ ("B" :> "b") @@ ("D" :> "d") @@ ("J" :> "j") @@
  ("N" :> "n") @@ ("S" :> "s")

Alphabet == {"a", "B", " ", "\t", ",", ".", "*", "1", "-"}

(***************************************************************************)
(* Python str and list primitives used by the two functions.               *)
(***************************************************************************)
str_lower(s) ==
  [i \in 1..Len(s) |-> IF s[i] \in DOMAIN UpperToLower
                       THEN UpperToLower[s[i]] ELSE s[i]]

RECURSIVE str_lstrip(_, _)
str_lstrip(s, chars) ==
  IF s = <<>> \/ Head(s) \notin chars THEN s ELSE str_lstrip(Tail(s), chars)

RECURSIVE str_rstrip(_, _)
str_rstrip(s, chars) ==
  IF s = <<>> \/ s[Len(s)] \notin chars THEN s
  ELSE str_rstrip(SubSeq(s, 1, Len(s) - 1), chars)

str_strip(s) == str_rstrip(str_lstrip(s, Whitespace), Whitespace)

\* s.replace(old, new): every non-overlapping occurrence, left to right.
RECURSIVE str_replace(_, _, _)
str_replace(s, old, new) ==
  IF Len(s) < Len(old) THEN s
  ELSE IF SubSeq(s, 1, Len(old)) = old
       THEN new \o str_replace(SubSeq(s, Len(old) + 1, Len(s)), old, new)
       ELSE <<Head(s)>> \o str_replace(Tail(s), old, new)

\* Index of the first occurrence of character c in s, 0 when there is none.
RECURSIVE str_find(_, _)
str_find(s, c) ==
  IF s = <<>> THEN 0
  ELSE IF Head(s) = c THEN 1
  ELSE LET r == str_find(Tail(s), c) IN IF r = 0 THEN 0 ELSE r + 1

\* s.split(c): one piece more than there are separators, empty pieces kept.
RECURSIVE str_split(_, _)
str_split(s, c) ==
  LET i == str_find(s, c) IN
  IF i = 0 THEN <<s>>
  ELSE <<SubSeq(s, 1, i - 1)>> \o str_split(SubSeq(s, i + 1, Len(s)), c)

\* Mutant: s.rsplit(c, 1), the split at the last separator.
RECURSIVE str_rfind(_, _)
str_rfind(s, c) ==
  IF s = <<>> THEN 0
  ELSE IF s[Len(s)] = c THEN Len(s)
  ELSE str_rfind(SubSeq(s, 1, Len(s) - 1), c)

str_split_last(s, c) ==
  LET i == str_rfind(s, c) IN
  IF i = 0 THEN <<s>>
  ELSE <<SubSeq(s, 1, i - 1), SubSeq(s, i + 1, Len(s))>>

\* s.split(c, 1): split at the first separator only.
str_split_first(s, c) ==
  LET i == str_find(s, c) IN
  IF i = 0 THEN <<s>>
  ELSE <<SubSeq(s, 1, i - 1), SubSeq(s, i + 1, Len(s))>>

\* Length of the leading run of non-whitespace characters.
RECURSIVE word_len(_)
word_len(s) ==
  IF s = <<>> \/ Head(s) \in Whitespace THEN 0 ELSE 1 + word_len(Tail(s))

\* s.split(): the maximal runs of non-whitespace characters.
RECURSIVE str_split_ws(_)
str_split_ws(s) ==
  LET t == str_lstrip(s, Whitespace) IN
  IF t = <<>> THEN <<>>
  ELSE LET n == word_len(t) IN
       <<SubSeq(t, 1, n)>> \o str_split_ws(SubSeq(t, n + 1, Len(t)))

\* sep.join(parts)
RECURSIVE str_join(_, _)
str_join(sep, parts) ==
  IF parts = <<>> THEN <<>>
  ELSE IF Len(parts) = 1 THEN parts[1]
  ELSE parts[1] \o sep \o str_join(sep, Tail(parts))

\* filter(None, parts): the non-empty strings of parts, in order.
filter_none(parts) == SelectSeq(parts, LAMBDA p : p # <<>>)

(***************************************************************************)
(* Outcomes of a call.                                                     *)
(***************************************************************************)
Pending == [kind |-> "pending", val |-> <<>>]

None == [kind |-> "None", val |-> <<>>]

Str(s) == [kind |-> "str", val |-> s]

List(l) == [kind |-> "list", val |-> l]

IndexError == [kind |-> "IndexError", val |-> <<>>]

\* Outcomes of check_self_citation carry a boolean.
Bool(b) == [kind |-> "bool", val |-> b]

NotClassified == [kind |-> "pending", val |-> FALSE]

RowIndexError == [kind |-> "IndexError", val |-> FALSE]

\* The two names a branch of _normalize_author_name leaves behind.
Names(last, first_middle) ==
  [kind |-> "names", val |-> <<last, first_middle>>]

(***************************************************************************)
(* _normalize_author_name                                                  *)
(***************************************************************************)
Comma == ","

Period == <<".">>

Space == <<" ">>

Ellipsis == <<".", ".", ".">>

\* name_tokens[-1] and name_tokens[:-1] of a full-name token list.
last_token_is_surname(name_tokens) ==
  IF name_tokens = <<>> THEN IndexError
  ELSE Names(name_tokens[Len(name_tokens)],
             str_join(Space, SubSeq(name_tokens, 1, Len(name_tokens) - 1)))

\* Mutant: the periods of the first/middle part are kept.
comma_form_keeps_periods(name_components) ==
  LET temp_last == str_strip(name_components[1])
      temp_first_middle ==
        str_join(Space, str_split_ws(str_strip(name_components[2])))
  IN  IF temp_last # <<>>
      THEN Names(temp_last, temp_first_middle)
      ELSE LET name_tokens == str_split_ws(temp_first_middle) IN
           IF name_tokens = <<>> THEN None
           ELSE IF Len(name_tokens) = 1 THEN Names(name_tokens[1], <<>>)
           ELSE last_token_is_surname(name_tokens)

\* Mutant: the empty-token guard of the ", First Middle" case is missing.
comma_form_unguarded(name_components) ==
  LET temp_last == str_strip(name_components[1])
      temp_first_middle ==
        str_join(Space,
          str_split_ws(str_strip(str_replace(name_components[2], Period, <<>>))))
  IN  IF temp_last # <<>>
      THEN Names(temp_last, temp_first_middle)
      ELSE LET name_tokens == str_split_ws(temp_first_middle) IN
           IF Len(name_tokens) = 1 THEN Names(name_tokens[1], <<>>)
           ELSE last_token_is_surname(name_tokens)

\* len(name_components) == 2: "Last, First Middle".
comma_form(name_components) ==
  LET temp_last == str_strip(name_components[1])
      temp_first_middle ==
        str_join(Space,
          str_split_ws(str_strip(str_replace(name_components[2], Period, <<>>))))
  IN  IF temp_last # <<>>
      THEN Names(temp_last, temp_first_middle)
      ELSE LET name_tokens == str_split_ws(temp_first_middle) IN
           IF name_tokens = <<>> THEN None
           ELSE IF Len(name_tokens) = 1 THEN Names(name_tokens[1], <<>>)
           ELSE last_token_is_surname(name_tokens)

\* Mutant: the first token is taken as the surname.
bare_form_first_is_surname(name_components) ==
  LET name_tokens == str_split_ws(name_components[1]) IN
  IF name_tokens = <<>> THEN None
  ELSE IF Len(name_tokens) = 1 THEN Names(name_tokens[1], <<>>)
  ELSE LET temp_first_middle_parts ==
             [i \in 1..(Len(name_tokens) - 1) |->
                str_strip(str_replace(name_tokens[i + 1], Period, <<>>))]
       IN  Names(name_tokens[1],
                 str_join(Space, filter_none(temp_first_middle_parts)))

\* len(name_components) == 1: "First Middle Last" or just "Last".
bare_form(name_components) ==
  LET name_tokens == str_split_ws(name_components[1]) IN
  IF name_tokens = <<>> THEN None
  ELSE IF Len(name_tokens) = 1 THEN Names(name_tokens[1], <<>>)
  ELSE LET temp_first_middle_parts ==
             [i \in 1..(Len(name_tokens) - 1) |->
                str_strip(str_replace(name_tokens[i], Period, <<>>))]
           final_first_middle ==
             str_join(Space,
               str_split_ws(str_join(Space, filter_none(temp_first_middle_parts))))
       IN  Names(name_tokens[Len(name_tokens)], final_first_middle)

\* The last-name check and the formatted return value.
format_name(final_last_name, final_first_middle) ==
  IF final_last_name = <<>> THEN None
  ELSE Str(final_last_name \o <<Comma>> \o final_first_middle)

\* Mutant: the trailing markers are not cut.
clean_name_keeps_markers(name_part) == str_strip(str_lower(name_part))

\* name_part.lower().strip().rstrip('*.0123456789 ')
clean_name(name_part) ==
  str_rstrip(str_strip(str_lower(name_part)), TrailingJunk)

_normalize_author_name(name_part) ==
  LET name == clean_name(name_part) IN
  IF name = <<>> \/ name = Ellipsis THEN None
  ELSE LET name_components == str_split_first(name, Comma)
           parsed == IF Len(name_components) = 2 THEN comma_form(name_components)
                     ELSE IF Len(name_components) = 1 THEN bare_form(name_components)
                     ELSE Names(<<>>, <<>>)
       IN  IF parsed.kind = "names"
           THEN format_name(parsed.val[1], parsed.val[2])
           ELSE parsed

(***************************************************************************)
(* get_normalized_authors                                                  *)
(***************************************************************************)
NA == <<"N", "/", "A">>

CommaAnd == <<",", " ", "a", "n", "d", " ">>

And == <<" ", "a", "n", "d", " ">>

CommaSpace == <<",", " ">>

\* bool(normalized): None and the empty string are falsy.
truthy(normalized_name) ==
  normalized_name.kind = "str" /\ normalized_name.val # <<>>

\* Mutant: a name already in the list is not appended again.
RECURSIVE collect_distinct_authors(_, _)
collect_distinct_authors(author_parts, acc) ==
  IF author_parts = <<>> THEN List(acc)
  ELSE LET part == Head(author_parts) IN
       IF part = <<>> THEN collect_distinct_authors(Tail(author_parts), acc)
       ELSE LET normalized_name == _normalize_author_name(part) IN
            IF normalized_name.kind = "IndexError" THEN IndexError
            ELSE IF truthy(normalized_name)
                    /\ \A i \in 1..Len(acc) : acc[i] # normalized_name.val
                 THEN collect_distinct_authors(Tail(author_parts),
                                               Append(acc, normalized_name.val))
                 ELSE collect_distinct_authors(Tail(author_parts), acc)

\* The for loop over author_parts, appending to acc.
RECURSIVE collect_authors(_, _)
collect_authors(author_parts, acc) ==
  IF author_parts = <<>> THEN List(acc)
  ELSE LET part == Head(author_parts) IN
       IF part = <<>> THEN collect_authors(Tail(author_parts), acc)
       ELSE LET normalized_name == _normalize_author_name(part) IN
            IF normalized_name.kind = "IndexError" THEN IndexError
            ELSE IF truthy(normalized_name)
                 THEN collect_authors(Tail(author_parts),
                                      Append(acc, normalized_name.val))
                 ELSE collect_authors(Tail(author_parts), acc)

\* Mutant: the word "and" is left in the string.
keep_and(s) == s

\* The two replace calls: variations of "and" become ", ".
clean_author_string(s) ==
  str_replace(str_replace(s, CommaAnd, CommaSpace), And, CommaSpace)

\* [part.strip() for part in author_string_cleaned.split(',')]
split_author_parts(author_string_cleaned) ==
  LET pieces == str_split(author_string_cleaned, Comma) IN
  [i \in 1..Len(pieces) |-> str_strip(pieces[i])]

get_normalized_authors(s) ==
  IF s = <<>> \/ s = NA THEN List(<<>>)
  ELSE collect_authors(split_author_parts(clean_author_string(s)), <<>>)

(***************************************************************************)
(* check_self_citation                                                     *)
(***************************************************************************)
Range(l) == {l[i] : i \in 1..Len(l)}

\* Mutant: the first author of the original list decides.
first_author_rule(orig_authors_list, citing_authors_list) ==
  IF orig_authors_list = <<>> THEN RowIndexError
  ELSE Bool(orig_authors_list[1] \in Range(citing_authors_list))

\* orig_authors_list[-1] in set(citing_authors_list)
last_author_rule(orig_authors_list, citing_authors_list) ==
  IF orig_authors_list = <<>> THEN RowIndexError
  ELSE Bool(orig_authors_list[Len(orig_authors_list)] \in Range(citing_authors_list))

\* Mutant: authors are compared position by position.
same_position_rule(orig_authors_list, citing_authors_list) ==
  Bool(\E i \in 1..Len(orig_authors_list) :
         i <= Len(citing_authors_list) /\ orig_authors_list[i] = citing_authors_list[i])

\* Mutant: only the first citing author is looked up among the originals.
first_citing_author_rule(orig_authors_list, citing_authors_list) ==
  Bool(citing_authors_list # <<>>
       /\ citing_authors_list[1] \in Range(orig_authors_list))

\* bool(set(orig_authors_list).intersection(set(citing_authors_list)))
any_author_rule(orig_authors_list, citing_authors_list) ==
  Bool(Range(orig_authors_list) \cap Range(citing_authors_list) # {})

\* Mutant: the guard asks for both lists to be empty.
both_missing(orig_authors_list, citing_authors_list) ==
  orig_authors_list = <<>> /\ citing_authors_list = <<>>

\* if not orig_authors_list or not citing_authors_list
missing_authors(orig_authors_list, citing_authors_list) ==
  orig_authors_list = <<>> \/ citing_authors_list = <<>>

check_self_citation(r, last_author_only) ==
  LET orig_authors_list == r.original_paper_normalized_authors
      citing_authors_list == r.citing_paper_normalized_authors
  IN  IF missing_authors(orig_authors_list, citing_authors_list) THEN Bool(FALSE)
      ELSE IF last_author_only
           THEN last_author_rule(orig_authors_list, citing_authors_list)
           ELSE any_author_rule(orig_authors_list, citing_authors_list)

(***************************************************************************)
(* Inputs.                                                                 *)
(***************************************************************************)
SmithJ == <<"s", "m", "i", "t", "h", ",", "j">>

DoeA == <<"d", "o", "e", ",", "a">>

LeeK == <<"l", "e", "e", ",", "k">>

AuthorTokens == {SmithJ, DoeA, LeeK}

AuthorLists == UNION {[1..n -> AuthorTokens] : n \in 0..MaxAuthors}

NoRow == [original_paper_normalized_authors |-> <<>>,
          citing_paper_normalized_authors |-> <<>>]

\* "Smith, J., and Doe, A."
SmithAndDoe ==
  <<"S", "m", "i", "t", "h", ",", " ", "J", ".", ",", " ", "a", "n", "d", " ",
    "D", "o", "e", ",", " ", "A", ".">>

\* "Smith, J.A."
SmithJA == <<"S", "m", "i", "t", "h", ",", " ", "J", ".", "A", ".">>

\* "John Smith"
JohnSmith == <<"J", "o", "h", "n", " ", "S", "m", "i", "t", "h">>

\* "Smith"
Smith == <<"S", "m", "i", "t", "h">>

Examples ==
  { SmithAndDoe, SmithJA, JohnSmith, Smith, NA, Ellipsis,
    <<"?">>, <<"1", "2", "3">>,
    <<"a", " ", " ", "b", ",", "a">>,                 \* "a  b,a"
    <<"a", ",", "b", ".", " ", " ", "a", ".">>,        \* "a,b.  a."
    <<",", "a", ".", " ", "b", ".", "a">>,             \* ",a. b.a"
    <<"a", ".", " ", ".", " ", "B", ".", "a", "1">>,   \* "a. . B.a1"
    <<"a", " ", "a", "n", "d", " ", "a", "n", "d", " ", "B">>,  \* "a and and B"
    <<"B", ",", " ", "a", "n", "d", " ", "a", ",", "-", ",", "B">> } \* "B, and a,-,B"

Strings == UNION {[1..n -> Alphabet] : n \in 0..MaxLen}

Inputs == Strings \cup Examples

(***************************************************************************)
(* The spider before it runs.                                              *)
(***************************************************************************)
NoFetch == [pc |-> "idle", link |-> FALSE, citing |-> <<>>, page_num |-> 0,
            start_index |-> 0, citing_papers |-> <<>>]

NoReport == [kind |-> "none", total |-> 0, self |-> 0, percentage |-> Pending,
             groups |-> <<>>]

SpiderIdle ==
  /\ author_publications = <<>>
  /\ pub_index = 0
  /\ fetch = NoFetch
  /\ all_citations_data = <<>>
  /\ citations_df = <<>>
  /\ report = NoReport
  /\ requests = <<>>

(***************************************************************************)
(* State machine: one call of each function on the drawn input.            *)
(***************************************************************************)
InitStrings ==
  /\ pc = "strings"
  /\ author_string \in Inputs
  /\ normalized = Pending
  /\ normalized_authors = Pending
  /\ row = NoRow
  /\ last_author_is_self_source = FALSE
  /\ is_self_citation = NotClassified
  /\ SpiderIdle

InitRows ==
  /\ pc = "rows"
  /\ author_string = <<>>
  /\ normalized = Pending
  /\ normalized_authors = Pending
  /\ row \in [original_paper_normalized_authors : AuthorLists,
               citing_paper_normalized_authors : AuthorLists]
  /\ last_author_is_self_source \in BOOLEAN
  /\ is_self_citation = NotClassified
  /\ SpiderIdle

Init == InitStrings \/ InitRows

NormalizeName ==
  /\ pc = "strings"
  /\ normalized = Pending
  /\ normalized' = _normalize_author_name(author_string)
  /\ UNCHANGED <<pc, author_string, normalized_authors, row,
                 last_author_is_self_source, is_self_citation, spider_vars>>

GetAuthors ==
  /\ pc = "strings"
  /\ normalized_authors = Pending
  /\ normalized_authors' = get_normalized_authors(author_string)
  /\ UNCHANGED <<pc, author_string, normalized, row,
                 last_author_is_self_source, is_self_citation, spider_vars>>

ClassifyRow ==
  /\ pc = "rows"
  /\ is_self_citation = NotClassified
  /\ is_self_citation' = check_self_citation(row, last_author_is_self_source)
  /\ UNCHANGED <<pc, author_string, normalized, normalized_authors, row,
                 last_author_is_self_source, spider_vars>>

Next == NormalizeName \/ GetAuthors \/ ClassifyRow

Spec == Init /\ [][Next]_vars

(***************************************************************************)
(* fetch_citations_for_paper.  The citation pages of a publication are     *)
(* served from the list fetch.citing of its citing items, ten per page;    *)
(* a request may also raise or come back without content.                  *)
(***************************************************************************)
max_pages_to_fetch == 50

results_per_page == 10

DashSeparator == <<" ", "-", " ">>

\* citing_authors_full_text.split(" - ")[0]
RECURSIVE before_dash(_)
before_dash(s) ==
  IF Len(s) < Len(DashSeparator) THEN s
  ELSE IF SubSeq(s, 1, Len(DashSeparator)) = DashSeparator THEN <<>>
  ELSE <<Head(s)>> \o before_dash(Tail(s))

\* The dictionary appended for one citing item.
citing_paper(item) ==
  LET citing_authors_text == before_dash(item.authors) IN
  [title |-> item.title,
   authors |-> citing_authors_text,
   normalized_authors |-> get_normalized_authors(citing_authors_text).val]

\* An item whose parsing raises is skipped by the inner except.
item_parses(item) ==
  ~item.broken /\ get_normalized_authors(before_dash(item.authors)).kind = "list"

\* The for loop over paper_divs: the dictionaries of one page, in order.
parse_page(paper_divs) ==
  LET good == SelectSeq(paper_divs, item_parses) IN
  [i \in 1..Len(good) |-> citing_paper(good[i])]

\* The items the page at offset start_index holds.
page_at(citing, start_index) ==
  SubSeq(citing, start_index + 1,
         IF start_index + results_per_page < Len(citing)
         THEN start_index + results_per_page ELSE Len(citing))

\* Mutant: a short page does not end the loop.
only_empty_page_is_last(found_on_page) == found_on_page = 0

\* found_on_page == 0, or fewer than 10 results: the last page.
page_is_last(found_on_page) ==
  found_on_page = 0 \/ found_on_page < results_per_page

\* if not cited_by_link_base: return citing_papers
fetch_entry(f) ==
  IF ~f.link THEN [f EXCEPT !.pc = "returned"]
  ELSE [f EXCEPT !.pc = "loop", !.start_index = 0, !.page_num = 0]

\* One iteration of the page loop; outcome is what the request did.
\* One pass of the loop on a page that came back with content.
fetch_content(f) ==
  LET paper_divs == page_at(f.citing, f.start_index)
      collected == f.citing_papers \o parse_page(paper_divs)
  IN  IF page_is_last(Len(paper_divs))
         \/ f.page_num + 1 >= max_pages_to_fetch
      THEN [f EXCEPT !.pc = "returned", !.citing_papers = collected]
      ELSE [f EXCEPT !.citing_papers = collected,
                     !.start_index = f.start_index + results_per_page,
                     !.page_num = f.page_num + 1]

\* Mutant: an exception throws away what the earlier pages gave.
fetch_page_forgets_on_error(f, outcome) ==
  IF outcome = "error"
  THEN [f EXCEPT !.pc = "returned", !.citing_papers = <<>>]
  ELSE IF outcome # "content" THEN [f EXCEPT !.pc = "returned"]
  ELSE fetch_content(f)

\* One pass of the loop: no content or an exception breaks out of it with
\* citing_papers as it stands.
fetch_page(f, outcome) ==
  IF outcome # "content" THEN [f EXCEPT !.pc = "returned"]
  ELSE fetch_content(f)

PageOutcomes == {"content", "no_content", "error"}

FetchEntry ==
  /\ fetch.pc = "entry"
  /\ fetch' = fetch_entry(fetch)
  /\ UNCHANGED <<pc, author_string, normalized, normalized_authors, row,
                 last_author_is_self_source, is_self_citation,
                 author_publications, pub_index, all_citations_data,
                 citations_df, report, requests>>

FetchPage ==
  /\ fetch.pc = "loop"
  /\ \E outcome \in PageOutcomes :
       /\ fetch' = fetch_page(fetch, outcome)
       /\ requests' = Append(requests,
                             [pub |-> pub_index,
                              start |-> fetch.start_index,
                              outcome |-> outcome,
                              found_on_page |->
                                IF outcome = "content"
                                THEN Len(page_at(fetch.citing, fetch.start_index))
                                ELSE 0])
  /\ UNCHANGED <<pc, author_string, normalized, normalized_authors, row,
                 last_author_is_self_source, is_self_citation,
                 author_publications, pub_index, all_citations_data,
                 citations_df, report>>

(***************************************************************************)
(* google_scholar_spider.  A row carries, beside the columns the code      *)
(* writes, the index pub of the publication it comes from.  Saving the     *)
(* table to a file changes nothing the report reads and is left out.       *)
(***************************************************************************)
\* The dictionaries appended to all_citations_data for one publication.
rows_of(pub, index, citations) ==
  [i \in 1..Len(citations) |->
     [pub |-> index,
      original_paper_title |-> pub.title,
      original_paper_authors |-> pub.authors,
      original_paper_normalized_authors |-> pub.normalized_authors,
      citing_paper_title |-> citations[i].title,
      citing_paper_normalized_authors |-> citations[i].normalized_authors]]

\* pub.get("cited_by_link") and pub.get("num_citations", 0) > 0
has_citations_to_fetch(pub) == pub.cited_by_link /\ pub.num_citations > 0

\* Mutant: the table is built whether or not any row was collected.
table_always_built(data) == TRUE

\* if all_citations_data:
has_citation_data(data) == data # <<>>

\* citations_df.apply(check_self_citation, axis=1)
classify_rows(rows, last_author_only) ==
  [i \in 1..Len(rows) |-> check_self_citation(rows[i], last_author_only)]

\* df['is_self_citation'].sum()
sum_is_self_citation(df) ==
  Cardinality({i \in 1..Len(df) : df[i].is_self_citation})

\* The rows of one group of groupby('original_paper_title').
group_of(df, title) ==
  SelectSeq(df, LAMBDA r : r.original_paper_title = title)

NoCitations == [kind |-> "no_citations", val |-> <<>>]

ZeroDivisionError == [kind |-> "ZeroDivisionError", val |-> <<>>]

\* (self / total) * 100, kept as the fraction 100 * self over total.
percentage(self_citations, total_citations) ==
  IF total_citations = 0 THEN ZeroDivisionError
  ELSE [kind |-> "percentage", val |-> <<100 * self_citations, total_citations>>]

\* if total > 0: the percentage, else the "no citations" line.
guarded_percentage(self_citations, total_citations) ==
  IF total_citations > 0 THEN percentage(self_citations, total_citations)
  ELSE NoCitations

\* Mutant: every group is given the rows of the whole table.
group_unfiltered(df) ==
  LET titles == {df[i].original_paper_title : i \in 1..Len(df)} IN
  [t \in titles |->
     [total |-> Len(df),
      self |-> sum_is_self_citation(df),
      authors |-> df[1].original_paper_authors,
      percentage |-> guarded_percentage(sum_is_self_citation(df), Len(df))]]

\* for original_paper_title, group in citations_df.groupby('original_paper_title')
group_by_title(df) ==
  LET titles == {df[i].original_paper_title : i \in 1..Len(df)} IN
  [t \in titles |->
     LET group == group_of(df, t)
         paper_total_citations == Len(group)
         paper_self_citations == sum_is_self_citation(group)
     IN  [total |-> paper_total_citations,
          self |-> paper_self_citations,
          authors |-> group[1].original_paper_authors,
          percentage |-> guarded_percentage(paper_self_citations,
                                            paper_total_citations)]]

\* The overall line and the per-paper summary.
self_citation_report(df) ==
  LET total_citations_found == Len(df)
      total_self_citations == sum_is_self_citation(df)
  IN  [kind |-> "report",
       total |-> total_citations_found,
       self |-> total_self_citations,
       percentage |-> guarded_percentage(total_self_citations,
                                         total_citations_found),
       groups |-> group_by_title(df)]

Message(kind) == [NoReport EXCEPT !.kind = kind]

\* Mutant: the loop steps over every other publication.
every_other_publication(index) == index + 2

\* for pub in author_publications: the position of the next one.
next_publication(index) == index + 1

\* if not author_publications: print, return
SpiderStart ==
  /\ pc = "spider"
  /\ IF author_publications = <<>>
     THEN /\ report' = Message("no_publications")
          /\ pc' = "done"
          /\ UNCHANGED pub_index
     ELSE /\ pub_index' = 1
          /\ pc' = "publications"
          /\ UNCHANGED report
  /\ UNCHANGED <<author_string, normalized, normalized_authors, row,
                 last_author_is_self_source, is_self_citation,
                 author_publications, fetch, all_citations_data,
                 citations_df, requests>>

\* for pub in author_publications: call the fetch, or skip the publication.
ProcessPublication ==
  /\ pc = "publications"
  /\ pub_index <= Len(author_publications)
  /\ LET pub == author_publications[pub_index] IN
     IF has_citations_to_fetch(pub)
     THEN /\ fetch' = [NoFetch EXCEPT !.pc = "entry",
                                      !.link = pub.cited_by_link,
                                      !.citing = pub.citing]
          /\ pc' = "fetching"
          /\ UNCHANGED pub_index
     ELSE /\ pub_index' = next_publication(pub_index)
          /\ UNCHANGED <<pc, fetch>>
  /\ UNCHANGED <<author_string, normalized, normalized_authors, row,
                 last_author_is_self_source, is_self_citation,
                 author_publications, all_citations_data,
                 citations_df, report, requests>>

\* for citing_paper in citations: all_citations_data.append(...)
CollectCitations ==
  /\ pc = "fetching"
  /\ fetch.pc = "returned"
  /\ all_citations_data' =
       all_citations_data \o rows_of(author_publications[pub_index], pub_index,
                                     fetch.citing_papers)
  /\ fetch' = NoFetch
  /\ pub_index' = next_publication(pub_index)
  /\ pc' = "publications"
  /\ UNCHANGED <<author_string, normalized, normalized_authors, row,
                 last_author_is_self_source, is_self_citation,
                 author_publications, citations_df, report, requests>>

\* if all_citations_data: build the table and classify every row.
ClassifyCitations ==
  /\ pc = "publications"
  /\ pub_index > Len(author_publications)
  /\ LET verdicts == classify_rows(all_citations_data,
                                   last_author_is_self_source) IN
     IF ~has_citation_data(all_citations_data)
     THEN /\ report' = Message("no_citation_data")
          /\ pc' = "done"
          /\ UNCHANGED citations_df
     ELSE IF \E i \in 1..Len(verdicts) : verdicts[i].kind # "bool"
     THEN /\ report' = Message("exception")
          /\ pc' = "done"
          /\ UNCHANGED citations_df
     ELSE /\ citations_df' =
               [i \in 1..Len(all_citations_data) |->
                  [pub |-> all_citations_data[i].pub,
                   original_paper_title |->
                     all_citations_data[i].original_paper_title,
                   original_paper_authors |->
                     all_citations_data[i].original_paper_authors,
                   is_self_citation |-> verdicts[i].val]]
          /\ pc' = "report"
          /\ UNCHANGED report
  /\ UNCHANGED <<author_string, normalized, normalized_authors, row,
                 last_author_is_self_source, is_self_citation,
                 author_publications, pub_index, fetch, all_citations_data,
                 requests>>

\* The self-citation report.
PrintReport ==
  /\ pc = "report"
  /\ report' = self_citation_report(citations_df)
  /\ pc' = "done"
  /\ UNCHANGED <<author_string, normalized, normalized_authors, row,
                 last_author_is_self_source, is_self_citation,
                 author_publications, pub_index, fetch, all_citations_data,
                 citations_df, requests>>

(***************************************************************************)
(* Publications and citation lists the spider is run on.                   *)
(***************************************************************************)
MaxPubs == 2

MaxCiting == 505

KLee == <<"k", " ", "l", "e", "e">>

TNguyen == <<"t", " ", "n", "g", "u", "y", "e", "n">>

LeeAndPatel == <<"k", " ", "l", "e", "e", ",", " ", "s", " ", "p", "a", "t", "e", "l">>

PatelAndNguyen == <<"s", " ", "p", "a", "t", "e", "l", ",", " ", "t", " ", "n", "g", "u", "y", "e", "n">>

\* "t nguyen - j, 2020"
NguyenInJournal == <<"t", " ", "n", "g", "u", "y", "e", "n", " ", "-", " ", "j", ",", " ", "2", "0", "2", "0">>

Item(title, authors) == [title |-> title, authors |-> authors, broken |-> FALSE]

\* n citing items; every seventh is one whose parsing raises.
CitingList(n) ==
  [i \in 1..n |->
     [title |-> i,
      authors |-> IF i % 3 = 1 THEN KLee
                  ELSE IF i % 3 = 2 THEN TNguyen ELSE PatelAndNguyen,
      broken |-> i % 7 = 0]]

ExampleCiting == <<Item(1, KLee), Item(2, TNguyen), Item(3, PatelAndNguyen)>>

Publication(title, authors, num_citations, cited_by_link, citing) ==
  [title |-> title,
   authors |-> authors,
   normalized_authors |-> get_normalized_authors(authors).val,
   num_citations |-> num_citations,
   cited_by_link |-> cited_by_link,
   citing |-> citing]

Publications ==
  { Publication("T1", LeeAndPatel, 3, TRUE, ExampleCiting),
    Publication("T1", TNguyen, 1, TRUE, <<Item(1, NguyenInJournal)>>),
    Publication("T2", KLee, 10, TRUE, CitingList(results_per_page)),
    Publication("T3", PatelAndNguyen, 12, TRUE, CitingList(results_per_page + 2)),
    Publication("T4", KLee, 0, FALSE, <<>>),
    Publication("T5", KLee, 0, TRUE, ExampleCiting),
    Publication("T6", NA, 1, TRUE, <<Item(1, KLee)>>) }

PublicationLists == UNION {[1..n -> Publications] : n \in 0..MaxPubs}

SpiderInit ==
  /\ pc = "spider"
  /\ author_string = <<>>
  /\ normalized = Pending
  /\ normalized_authors = Pending
  /\ row = NoRow
  /\ is_self_citation = NotClassified
  /\ last_author_is_self_source \in BOOLEAN
  /\ author_publications \in PublicationLists
  /\ pub_index = 0
  /\ fetch = NoFetch
  /\ all_citations_data = <<>>
  /\ citations_df = <<>>
  /\ report = NoReport
  /\ requests = <<>>

SpiderNext ==
  \/ SpiderStart
  \/ ProcessPublication
  \/ FetchEntry
  \/ FetchPage
  \/ CollectCitations
  \/ ClassifyCitations
  \/ PrintReport

SpiderSpec == SpiderInit /\ [][SpiderNext]_vars

(***************************************************************************)
(* One call of fetch_citations_for_paper on its own, on lists long enough  *)
(* to reach the page limit.                                                *)
(***************************************************************************)
\* n citing items with one-letter author names; every seventh is one whose
\* parsing raises.
PagedList(n) ==
  [i \in 1..n |->
     [title |-> i,
      authors |-> IF i % 2 = 1 THEN <<"a">> ELSE <<"b", " ", "-", " ", "c">>,
      broken |-> i % 7 = 0]]

CitingLengths ==
  {0, 1, results_per_page - 1, results_per_page, results_per_page + 1,
   2 * results_per_page, 2 * results_per_page + 5,
   max_pages_to_fetch * results_per_page - 1,
   max_pages_to_fetch * results_per_page, MaxCiting}

FetchInit ==
  /\ pc = "fetch"
  /\ author_string = <<>>
  /\ normalized = Pending
  /\ normalized_authors = Pending
  /\ row = NoRow
  /\ is_self_citation = NotClassified
  /\ last_author_is_self_source = FALSE
  /\ author_publications = <<>>
  /\ pub_index = 0
  /\ \E link \in BOOLEAN, n \in CitingLengths :
       fetch = [NoFetch EXCEPT !.pc = "entry", !.link = link,
                               !.citing = PagedList(n)]
  /\ all_citations_data = <<>>
  /\ citations_df = <<>>
  /\ report = NoReport
  /\ requests = <<>>

FetchNext == FetchEntry \/ FetchPage

FetchSpec == FetchInit /\ [][FetchNext]_vars

(***************************************************************************)
(* Vocabulary of the claims.                                               *)
(***************************************************************************)
Classified == pc = "rows" /\ is_self_citation.kind # "pending"

Orig == row.original_paper_normalized_authors

Citing == row.citing_paper_normalized_authors

Normalized == pc = "strings" /\ normalized.kind # "pending"

AuthorsListed == pc = "strings" /\ normalized_authors.kind # "pending"

\* Two lists share a token, by exact token equality.
ShareToken(a, b) == \E i \in 1..Len(a) : \E j \in 1..Len(b) : a[i] = b[j]

(***************************************************************************)
(* C1: under both policies the verdict is false whenever the original      *)
(* author list or the citing author list is empty.                         *)
(***************************************************************************)
C1_EmptyListIsNeverSelf ==
  (Classified /\ (Orig = <<>> \/ Citing = <<>>)) => is_self_citation = Bool(FALSE)

C1_Witness ==
  /\ Classified
  /\ Orig = <<>>
  /\ Citing # <<>>
  /\ last_author_is_self_source
  /\ is_self_citation = Bool(FALSE)

(***************************************************************************)
(* C2: under AnyAuthorOverlap the verdict is true exactly when some token  *)
(* occurs in both lists; any reordering or duplication of either list      *)
(* (same set of tokens) gets the same verdict.                             *)
(***************************************************************************)
C2_AnyOverlapIffShared ==
  (Classified /\ ~last_author_is_self_source) =>
    /\ is_self_citation = Bool(ShareToken(Orig, Citing))
    /\ \A o \in AuthorLists :
         Range(o) = Range(Orig) =>
           check_self_citation([original_paper_normalized_authors |-> o,
                                citing_paper_normalized_authors |-> Citing], FALSE)
             = is_self_citation
    /\ \A c \in AuthorLists :
         Range(c) = Range(Citing) =>
           check_self_citation([original_paper_normalized_authors |-> Orig,
                                citing_paper_normalized_authors |-> c], FALSE)
             = is_self_citation

C2_Witness ==
  /\ Classified
  /\ ~last_author_is_self_source
  /\ Orig = <<SmithJ, DoeA>>
  /\ Citing = <<LeeK, DoeA, DoeA>>
  /\ is_self_citation = Bool(TRUE)

(***************************************************************************)
(* C3: under LastAuthorOnly, with both lists non-empty, the verdict is     *)
(* true exactly when the last element of the original list occurs in the   *)
(* citing list; original ["smith,j","doe,a"] against ["smith,j"] is false.  *)
(***************************************************************************)
C3_LastAuthorIffPresent ==
  (Classified /\ last_author_is_self_source /\ Orig # <<>> /\ Citing # <<>>) =>
    /\ is_self_citation =
         Bool(\E j \in 1..Len(Citing) : Citing[j] = Orig[Len(Orig)])
    /\ (Orig = <<SmithJ, DoeA>> /\ Citing = <<SmithJ>>) =>
         is_self_citation = Bool(FALSE)

C3_Witness ==
  /\ Classified
  /\ last_author_is_self_source
  /\ Orig = <<SmithJ, DoeA>>
  /\ Citing = <<SmithJ>>
  /\ is_self_citation = Bool(FALSE)

(***************************************************************************)
(* Text operations in the claims' own words.                               *)
(***************************************************************************)
WithoutPeriods(s) == SelectSeq(s, LAMBDA ch : ch # ".")

\* Whitespace runs become one space each; none is left at either end.
RECURSIVE SqueezeWhitespace(_)
SqueezeWhitespace(s) ==
  IF s = <<>> THEN <<>>
  ELSE IF Head(s) \in Whitespace
       THEN LET rest == str_lstrip(s, Whitespace) IN
            IF rest = <<>> THEN <<>> ELSE <<" ">> \o SqueezeWhitespace(rest)
       ELSE <<Head(s)>> \o SqueezeWhitespace(Tail(s))

Collapsed(s) == SqueezeWhitespace(str_lstrip(s, Whitespace))

IsCollapsed(s) == Collapsed(s) = s

\* The last whitespace token is the surname; the tokens before it, periods
\* removed and empty results discarded, are the first/middle part.
SurnameLast(tokens) ==
  tokens[Len(tokens)] \o <<",">> \o
    str_join(<<" ">>,
      SelectSeq([i \in 1..(Len(tokens) - 1) |-> WithoutPeriods(tokens[i])],
                LAMBDA t : t # <<>>))

\* "smith,", "j,", "doe,", "a,", "smith,ja", "smith,john"
SmithOnly == <<"s", "m", "i", "t", "h", ",">>

JOnly == <<"j", ",">>

DoeOnly == <<"d", "o", "e", ",">>

AOnly == <<"a", ",">>

SmithJa == <<"s", "m", "i", "t", "h", ",", "j", "a">>

SmithJohn == <<"s", "m", "i", "t", "h", ",", "j", "o", "h", "n">>

(***************************************************************************)
(* C4 as stated: get_normalized_authors("Smith, J., and Doe, A.") returns   *)
(* ["smith,j", "doe,a"], surname and initial together in one token.        *)
(***************************************************************************)
C4_SurnameAndInitialTogether ==
  (AuthorsListed /\ author_string = SmithAndDoe) =>
    normalized_authors = List(<<SmithJ, DoeA>>)

(***************************************************************************)
(* C4 amended: get_normalized_authors("Smith, J., and Doe, A.") returns     *)
(* ["smith,", "j,", "doe,", "a,"]: one token per comma-separated piece, in  *)
(* the original order, each surname and each initial a token of its own.   *)
(***************************************************************************)
C4_OneTokenPerPiece ==
  (AuthorsListed /\ author_string = SmithAndDoe) =>
    normalized_authors = List(<<SmithOnly, JOnly, DoeOnly, AOnly>>)

C4_Witness ==
  /\ AuthorsListed
  /\ author_string = SmithAndDoe
  /\ Len(normalized_authors.val) = 4

(***************************************************************************)
(* C5: the three functions return a value for every input and never        *)
(* raise; get_normalized_authors returns the empty list for "N/A" and for  *)
(* the empty string.                                                       *)
(***************************************************************************)
C5_TotalFunctions ==
  /\ normalized.kind \in {"pending", "str", "None"}
  /\ normalized_authors.kind \in {"pending", "list"}
  /\ is_self_citation.kind \in {"pending", "bool"}
  /\ (AuthorsListed /\ author_string \in {<<>>, NA}) =>
       normalized_authors = List(<<>>)

C5_Witness ==
  /\ author_string = NA
  /\ normalized_authors = List(<<>>)
  /\ normalized.kind = "str"

(***************************************************************************)
(* C6: a segment whose text (lowercased, trimmed, trailing markers cut)    *)
(* contains a comma is split at the first comma only.  When the text       *)
(* before it is non-empty, that text trimmed is the last name and          *)
(* everything after it, periods removed and whitespace collapsed, is the   *)
(* first/middle part; "Smith, J.A." yields "smith,ja".  When the text      *)
(* before it is empty, that remainder is parsed with its last whitespace   *)
(* token as the surname.                                                   *)
(***************************************************************************)
C6_SplitOnFirstComma ==
  LET name == clean_name(author_string)
      i == str_find(name, ",")
      before == str_strip(SubSeq(name, 1, i - 1))
      after == Collapsed(WithoutPeriods(SubSeq(name, i + 1, Len(name))))
      tokens == str_split_ws(after)
  IN  (Normalized /\ i > 0) =>
        /\ before # <<>> => normalized = Str(before \o <<",">> \o after)
        /\ (before = <<>> /\ tokens # <<>>) => normalized = Str(SurnameLast(tokens))
        /\ author_string = SmithJA => normalized = Str(SmithJa)

C6_Witness ==
  /\ Normalized
  /\ author_string = SmithJA
  /\ normalized = Str(SmithJa)

(***************************************************************************)
(* C7: a segment whose text (lowercased, trimmed, trailing markers cut)    *)
(* has no comma is tokenized by whitespace: one token gives "token,";      *)
(* with several, the final token is the last name and the preceding        *)
(* tokens, periods removed and empty results discarded, joined by single   *)
(* spaces are the first/middle part.  "John Smith" yields "smith,john"     *)
(* and "Smith" yields "smith,".                                            *)
(***************************************************************************)
C7_LastTokenIsSurname ==
  LET name == clean_name(author_string)
      tokens == str_split_ws(name)
  IN  (Normalized /\ name # <<>> /\ str_find(name, ",") = 0) =>
        /\ Len(tokens) >= 1
        /\ Len(tokens) = 1 => normalized = Str(tokens[1] \o <<",">>)
        /\ Len(tokens) > 1 => normalized = Str(SurnameLast(tokens))
        /\ author_string = JohnSmith => normalized = Str(SmithJohn)
        /\ author_string = Smith => normalized = Str(SmithOnly)

C7_Witness ==
  /\ Normalized
  /\ author_string = JohnSmith
  /\ normalized = Str(SmithJohn)

(***************************************************************************)
(* Segments of an author string, as the claims count them.                 *)
(***************************************************************************)
Punctuation == {",", ".", "*", "-", "?", "/"}

OnlyPunctuationOrDigits(s) ==
  s # <<>> /\ \A i \in 1..Len(s) : s[i] \in Punctuation \cup Digits

\* Once trimmed, nothing but asterisks, periods, digits and spaces.
OnlyTrailingMarkers(s) ==
  \A i \in 1..Len(str_strip(s)) :
     str_strip(s)[i] \in {"*", ".", " "} \cup Digits

\* The comma-separated pieces after ", and " and " and " became ", ".
Pieces(s) == str_split(clean_author_string(s), ",")

NonEmptyPieces(s) == SelectSeq(Pieces(s), LAMBDA p : p # <<>>)

\* The non-absent normalizations of the non-empty pieces, in order.
NormalizedPieces(s) ==
  LET results == [i \in 1..Len(NonEmptyPieces(s)) |->
                    _normalize_author_name(NonEmptyPieces(s)[i])]
      kept == SelectSeq(results, LAMBDA r : r.kind = "str")
  IN  [i \in 1..Len(kept) |-> kept[i].val]

(***************************************************************************)
(* C8 as stated: a segment that is empty after trimming, equals "...", or  *)
(* consists only of punctuation and/or digits normalizes to absent, and    *)
(* contributes no element to the list of get_normalized_authors.           *)
(***************************************************************************)
C8_PunctuationIsAbsent ==
  /\ (Normalized /\ (\/ str_strip(author_string) = <<>>
                     \/ author_string = Ellipsis
                     \/ OnlyPunctuationOrDigits(author_string))) =>
       normalized = None
  /\ AuthorsListed =>
       Len(normalized_authors.val) <=
         Len(SelectSeq(Pieces(author_string),
                       LAMBDA p : ~(\/ str_strip(p) = <<>>
                                    \/ p = Ellipsis
                                    \/ OnlyPunctuationOrDigits(str_strip(p)))))

(***************************************************************************)
(* C8 amended: a segment that is empty after trimming, equals "...", or,   *)
(* once trimmed, consists only of asterisks, periods, digits and spaces    *)
(* normalizes to absent, and contributes no element to the list of         *)
(* get_normalized_authors.                                                 *)
(***************************************************************************)
C8_TrailingMarkersAreAbsent ==
  /\ (Normalized /\ (\/ str_strip(author_string) = <<>>
                     \/ author_string = Ellipsis
                     \/ OnlyTrailingMarkers(author_string))) =>
       normalized = None
  /\ AuthorsListed =>
       Len(normalized_authors.val) <=
         Len(SelectSeq(Pieces(author_string),
                       LAMBDA p : ~OnlyTrailingMarkers(p)))

C8_Witness ==
  /\ Normalized
  /\ AuthorsListed
  /\ author_string = <<"1", "2", "3">>
  /\ normalized = None
  /\ normalized_authors = List(<<>>)

(***************************************************************************)
(* C9 as stated: every non-absent result is entirely lowercase, has a      *)
(* non-empty last-name part before its first comma, contains no period,    *)
(* and has collapsed whitespace without leading or trailing whitespace in  *)
(* either part.                                                            *)
(***************************************************************************)
C9_CanonicalEverywhere ==
  (Normalized /\ normalized.kind = "str") =>
    LET token == normalized.val
        i == str_find(token, ",")
    IN  /\ \A k \in 1..Len(token) : token[k] \notin DOMAIN UpperToLower
        /\ i > 1
        /\ \A k \in 1..Len(token) : token[k] # "."
        /\ IsCollapsed(SubSeq(token, 1, i - 1))
        /\ IsCollapsed(SubSeq(token, i + 1, Len(token)))

(***************************************************************************)
(* C9 amended: every non-absent result is entirely lowercase and reads     *)
(* last,firstmiddle where last is non-empty without leading or trailing    *)
(* whitespace, and firstmiddle contains no period and has collapsed        *)
(* whitespace without leading or trailing whitespace; the last name may    *)
(* keep periods, whitespace runs and, for a segment that starts with a     *)
(* comma, commas.                                                          *)
(***************************************************************************)
C9_CanonicalFirstMiddle ==
  (Normalized /\ normalized.kind = "str") =>
    LET token == normalized.val IN
    /\ \A k \in 1..Len(token) : token[k] \notin DOMAIN UpperToLower
    /\ \E i \in 1..Len(token) :
         LET last == SubSeq(token, 1, i - 1)
             first_middle == SubSeq(token, i + 1, Len(token))
         IN  /\ token[i] = ","
             /\ last # <<>>
             /\ str_strip(last) = last
             /\ \A k \in 1..Len(first_middle) : first_middle[k] # "."
             /\ IsCollapsed(first_middle)

\* "a. . B.a1" gives "b.a,a": the period of the last name is kept.
C9_Witness ==
  /\ Normalized
  /\ author_string = <<"a", ".", " ", ".", " ", "B", ".", "a", "1">>
  /\ normalized = Str(<<"b", ".", "a", ",", "a">>)

(***************************************************************************)
(* C10 as stated: for every author string the returned list is exactly     *)
(* the non-absent normalizations of its non-empty comma-separated pieces,  *)
(* in their order, duplicates kept, never longer than the number of        *)
(* pieces.                                                                 *)
(***************************************************************************)
C10_EveryStringByPieces ==
  AuthorsListed =>
    /\ normalized_authors = List(NormalizedPieces(author_string))
    /\ Len(normalized_authors.val) <= Len(Pieces(author_string))

(***************************************************************************)
(* C10 amended: for every author string other than the sentinel "N/A",     *)
(* whose list is empty, the returned list is exactly the non-absent        *)
(* normalizations of its non-empty comma-separated pieces, in their        *)
(* order, duplicates kept, never longer than the number of pieces.         *)
(***************************************************************************)
C10_ByPiecesExceptSentinel ==
  AuthorsListed =>
    /\ author_string # NA =>
         normalized_authors = List(NormalizedPieces(author_string))
    /\ author_string = NA => normalized_authors = List(<<>>)
    /\ Len(normalized_authors.val) <= Len(Pieces(author_string))

\* "B, and a,-,B" gives ["b,", "a,", "-,", "b,"]: the repeated "b," is kept.
C10_Witness ==
  /\ AuthorsListed
  /\ author_string = <<"B", ",", " ", "a", "n", "d", " ", "a", ",", "-", ",", "B">>
  /\ normalized_authors =
       List(<<<<"b", ",">>, <<"a", ",">>, <<"-", ",">>, <<"b", ",">>>>)

(***************************************************************************)
(* Claims on fetch_citations_for_paper.                                    *)
(***************************************************************************)
Min(a, b) == IF a < b THEN a ELSE b

\* The requests of the call in progress that came back with content.
ContentRequests == {i \in 1..Len(requests) : requests[i].outcome = "content"}

\* The titles of the items on the pages that came back with content, less
\* the items whose parsing raised.
TitlesServed ==
  LET served == Min(Len(fetch.citing),
                    results_per_page * Cardinality(ContentRequests))
  IN  {fetch.citing[k].title : k \in {n \in 1..served : ~fetch.citing[n].broken}}

TitlesReturned ==
  {fetch.citing_papers[i].title : i \in 1..Len(fetch.citing_papers)}

FetchReturned == fetch.pc = "returned"

\* A page after which the code stops: no content, an error, fewer than ten.
StoppingPage(request) ==
  request.outcome # "content" \/ request.found_on_page < results_per_page

C15_PagesAreBounded ==
  /\ Len(requests) <= max_pages_to_fetch
  /\ \A i \in 1..Len(requests) : requests[i].start = results_per_page * (i - 1)
  /\ \A i \in 1..(Len(requests) - 1) : ~StoppingPage(requests[i])
  /\ (requests # <<>> /\ StoppingPage(requests[Len(requests)])) => FetchReturned
  /\ Len(requests) = max_pages_to_fetch => FetchReturned
  /\ fetch.pc = "loop" => fetch.page_num = Len(requests)
  /\ (~fetch.link /\ fetch.pc # "entry") =>
       (FetchReturned /\ requests = <<>> /\ fetch.citing_papers = <<>>)
  /\ TitlesReturned = TitlesServed
  /\ \A i \in 1..(Len(fetch.citing_papers) - 1) :
       fetch.citing_papers[i].title < fetch.citing_papers[i + 1].title

\* Every step of the call is its entry or one more page request, and there
\* is no step after the return.
C15_EachStepAdvances ==
  /\ ~FetchReturned
  /\ fetch.pc = "entry" =>
       /\ requests' = requests
       /\ fetch'.pc = IF fetch.link THEN "loop" ELSE "returned"
  /\ fetch.pc = "loop" =>
       /\ Len(requests') = Len(requests) + 1
       /\ \/ fetch'.pc = "returned"
          \/ /\ fetch'.pc = "loop"
             /\ fetch'.start_index = fetch.start_index + results_per_page

\* C15: a call of fetch_citations_for_paper always returns: every step of it
\* is one more page request and it requests at most 50 pages, at the offsets
\* 0, 10, 20, ..., and none after the first page that has no content, raises
\* or holds fewer than 10 items; with no link it returns the empty list at
\* once without a request; what it returns is the items of the pages it read,
\* in page order.
C15_FetchTerminates == [](C15_PagesAreBounded) /\ [][C15_EachStepAdvances]_vars

\* A call that read all 50 pages and left items of the list unread.
C15_Witness ==
  /\ FetchReturned
  /\ Len(requests) = max_pages_to_fetch
  /\ ~StoppingPage(requests[max_pages_to_fetch])
  /\ Len(fetch.citing_papers) < Len(fetch.citing)

(***************************************************************************)
(* Claims on the report of google_scholar_spider.                          *)
(***************************************************************************)
RECURSIVE SetSum(_, _)
SetSum(f, S) ==
  IF S = {} THEN 0
  ELSE LET x == CHOOSE y \in S : TRUE IN f[x] + SetSum(f, S \ {x})

Done == pc = "done"

Reported == Done /\ report.kind = "report"

PubIndexes == 1..Len(author_publications)

\* The citation records that originate from publication p, and those of
\* them classified true.
RecordsOf(p) == {i \in 1..Len(citations_df) : citations_df[i].pub = p}

SelfRecordsOf(p) == {i \in RecordsOf(p) : citations_df[i].is_self_citation}

\* The publications that carry title t.
PublishedAs(t) == {p \in PubIndexes : author_publications[p].title = t}

RecordsUnder(t) == UNION {RecordsOf(p) : p \in PublishedAs(t)}

SelfRecordsUnder(t) == UNION {SelfRecordsOf(p) : p \in PublishedAs(t)}

Titles == DOMAIN report.groups

\* The run-wide pair is the sum of the reported pairs and of the records of
\* every publication, and no pair has more self-citations than citations.
RunWideIsSum ==
  /\ report.total = SetSum([t \in Titles |-> report.groups[t].total], Titles)
  /\ report.self = SetSum([t \in Titles |-> report.groups[t].self], Titles)
  /\ report.total = SetSum([p \in PubIndexes |-> Cardinality(RecordsOf(p))],
                           PubIndexes)
  /\ report.self = SetSum([p \in PubIndexes |-> Cardinality(SelfRecordsOf(p))],
                          PubIndexes)
  /\ 0 <= report.self /\ report.self <= report.total
  /\ \A t \in Titles :
       0 <= report.groups[t].self /\ report.groups[t].self <= report.groups[t].total

\* A record is classified true exactly when the policy of the run says so
\* of its two author lists.
RecordsClassifiedByPolicy ==
  \A i \in 1..Len(citations_df) :
    citations_df[i].is_self_citation =
      check_self_citation(all_citations_data[i], last_author_is_self_source).val

LeeKPatelS == <<<<"l", "e", "e", ",", "k">>,
               <<"p", "a", "t", "e", "l", ",", "s">>>>

NguyenT == <<"n", "g", "u", "y", "e", "n", ",", "t">>

\* The run on the one publication by lee,k and patel,s whose three citing
\* works are by lee,k, by nguyen,t and by patel,s with nguyen,t.
ExampleRun ==
  /\ Len(author_publications) = 1
  /\ author_publications[1].normalized_authors = LeeKPatelS
  /\ Len(all_citations_data) = 3
  /\ all_citations_data[1].citing_paper_normalized_authors = <<LeeKPatelS[1]>>
  /\ all_citations_data[2].citing_paper_normalized_authors = <<NguyenT>>
  /\ all_citations_data[3].citing_paper_normalized_authors =
       <<LeeKPatelS[2], NguyenT>>
  /\ ~last_author_is_self_source

ExampleIsTwoOfThree ==
  (Reported /\ ExampleRun) => (report.self = 2 /\ report.total = 3)

\* C11 as stated: every publication with records is reported with the number
\* of its own records and of its own records classified true.
C11_CountsPerPublication ==
  Reported =>
    /\ \A p \in PubIndexes :
         RecordsOf(p) # {} =>
           /\ author_publications[p].title \in Titles
           /\ report.groups[author_publications[p].title].total =
                Cardinality(RecordsOf(p))
           /\ report.groups[author_publications[p].title].self =
                Cardinality(SelfRecordsOf(p))
    /\ RunWideIsSum
    /\ ExampleIsTwoOfThree

\* C11: after the run the report holds one pair per title that has records:
\* its total is the number of records that originate from the publications
\* with that title and its self count the number of those classified true;
\* the run-wide pair is the sum of the reported pairs, 0 <= self <= total
\* holds for every pair, and the example run reports 2 self out of 3.
C11_CountsPerTitle ==
  Reported =>
    /\ Titles = {author_publications[p].title :
                   p \in {q \in PubIndexes : RecordsOf(q) # {}}}
    /\ \A t \in Titles :
         /\ report.groups[t].total = Cardinality(RecordsUnder(t))
         /\ report.groups[t].self = Cardinality(SelfRecordsUnder(t))
    /\ RecordsClassifiedByPolicy
    /\ RunWideIsSum
    /\ ExampleIsTwoOfThree

\* A report in which two publications with records share a title, and the
\* example run.
C11_Witness ==
  /\ Reported
  /\ \E p, q \in PubIndexes :
       /\ p # q
       /\ author_publications[p].title = author_publications[q].title
       /\ SelfRecordsOf(p) # {} /\ SelfRecordsOf(p) # RecordsOf(p)
       /\ RecordsOf(q) # {}

C11_ExampleWitness == Reported /\ ExampleRun

\* C12: a percentage is computed only from a total above zero: no division
\* by zero happens, every reported pair has a total above zero, and a run in
\* which no publication yields a citing work ends with the message that
\* there are no citations instead of a report.
C12_NoDivisionByZero ==
  /\ report.percentage # ZeroDivisionError
  /\ report.percentage.kind = "percentage" =>
       /\ report.total > 0
       /\ report.percentage.val = <<100 * report.self, report.total>>
  /\ \A t \in Titles :
       /\ report.groups[t].total > 0
       /\ report.groups[t].percentage.kind = "percentage"
       /\ report.groups[t].percentage.val =
            <<100 * report.groups[t].self, report.groups[t].total>>
  /\ Reported => (report.total > 0 /\ report.percentage.kind = "percentage")
  /\ (Done /\ all_citations_data = <<>>) =>
       /\ report.kind = IF author_publications = <<>> THEN "no_publications"
                        ELSE "no_citation_data"
       /\ report.percentage = Pending
       /\ Titles = {}

\* A run over publications with links whose every fetch came back empty.
C12_Witness ==
  /\ Done
  /\ report.kind = "no_citation_data"
  /\ requests # <<>>
  /\ \A p \in PubIndexes : has_citations_to_fetch(author_publications[p])

(***************************************************************************)
(* Claims on the collection loop of google_scholar_spider.                 *)
(***************************************************************************)
\* The page requests made for publication p.
RequestsFor(p) == SelectSeq(requests, LAMBDA r : r.pub = p)

\* A fetch for p raised on one of its pages.
FetchFailed(p) ==
  \E i \in 1..Len(RequestsFor(p)) : RequestsFor(p)[i].outcome = "error"

\* The citation records collected for publication p.
RowsFrom(p) == SelectSeq(all_citations_data, LAMBDA r : r.pub = p)

\* The loop has gone past publication p.
Processed(p) == p \in PubIndexes /\ p < pub_index

\* The records of the items on the pages of p that came back with content.
RowsOfPagesRead(p) ==
  LET pub == author_publications[p]
      pages == Cardinality({i \in 1..Len(RequestsFor(p)) :
                             RequestsFor(p)[i].outcome = "content"})
      served == Min(Len(pub.citing), results_per_page * pages)
  IN  rows_of(pub, p, parse_page(SubSeq(pub.citing, 1, served)))

\* A failure stops neither the loop nor the report: every later publication
\* with citations to fetch has its pages requested and the run ends with the
\* report or the message that no citation was collected.
FailureDoesNotAbort ==
  /\ report.kind # "exception"
  /\ Done /\ author_publications # <<>> =>
       /\ pub_index = Len(author_publications) + 1
       /\ report.kind \in {"report", "no_citation_data"}
       /\ \A p \in PubIndexes :
            has_citations_to_fetch(author_publications[p]) =>
              RequestsFor(p) # <<>>

\* C13 as stated: a publication one of whose pages raised contributes no
\* record, and the run goes on.
C13_FailedFetchGivesNothing ==
  /\ \A p \in PubIndexes :
       (Processed(p) /\ FetchFailed(p)) => RowsFrom(p) = <<>>
  /\ FailureDoesNotAbort

\* C13: a publication one of whose citation pages raised contributes the
\* records of the pages read before that one, none when the first page
\* raised, and nothing of the failing page or of later ones; every later
\* publication is still processed and the run is never aborted.
C13_FailedFetchKeepsEarlierPages ==
  /\ \A p \in PubIndexes :
       (Processed(p) /\ FetchFailed(p)) =>
         /\ RowsFrom(p) = RowsOfPagesRead(p)
         /\ RequestsFor(p)[Len(RequestsFor(p))].outcome = "error"
         /\ RequestsFor(p)[1].outcome = "error" => RowsFrom(p) = <<>>
  /\ FailureDoesNotAbort

\* A finished run in which the first publication failed on its second page,
\* kept the rows of its first, and the second publication gave rows too.
C13_Witness ==
  /\ Reported
  /\ Len(author_publications) = 2
  /\ FetchFailed(1)
  /\ Len(RequestsFor(1)) = 2
  /\ RowsFrom(1) # <<>>
  /\ RowsFrom(2) # <<>>

\* How far the run has come: the stage, the publication, the pages requested
\* and the position inside the call of fetch_citations_for_paper.
Stage == CASE pc = "spider" -> 0
           [] pc \in {"publications", "fetching"} -> 1
           [] pc = "report" -> 2
           [] OTHER -> 3

FetchRank == CASE fetch.pc = "idle" -> 0
               [] fetch.pc = "entry" -> 1
               [] fetch.pc = "loop" -> 2
               [] OTHER -> 3

RunMeasure == <<Stage, 4 * pub_index + Len(requests) + FetchRank>>

\* Requests and records appear in discovery order, one publication at a time.
InDiscoveryOrder ==
  /\ \A i \in 1..(Len(requests) - 1) : requests[i].pub <= requests[i + 1].pub
  /\ \A i \in 1..(Len(all_citations_data) - 1) :
       all_citations_data[i].pub <= all_citations_data[i + 1].pub
  /\ \A i \in 1..Len(requests) : requests[i].pub <= pub_index
  /\ fetch.pc # "idle" => pc = "fetching"

\* Once a fetch has begun for q, the records of every earlier publication
\* are in the table, with their normalized author lists.
CollectedBeforeNextFetch ==
  \A p, q \in PubIndexes :
    (p < q /\ RequestsFor(q) # <<>>) => RowsFrom(p) = RowsOfPagesRead(p)

\* Nothing is classified or reported while publications are being fetched;
\* the table is classified whole, after the last publication.
ClassifiedAfterTheLoop ==
  /\ pc \in {"spider", "publications", "fetching"} =>
       (citations_df = <<>> /\ report = NoReport)
  /\ citations_df # <<>> =>
       /\ pub_index = Len(author_publications) + 1
       /\ Len(citations_df) = Len(all_citations_data)
       /\ RecordsClassifiedByPolicy

\* The end of the run: every publication processed and the report, or the
\* message that stands for it, printed.
EndsWithReport ==
  Done =>
    /\ fetch = NoFetch
    /\ IF author_publications = <<>> THEN report.kind = "no_publications"
       ELSE /\ pub_index = Len(author_publications) + 1
            /\ report.kind = IF all_citations_data = <<>>
                             THEN "no_citation_data" ELSE "report"
            /\ \A p \in PubIndexes : RowsFrom(p) = RowsOfPagesRead(p)

\* Every step moves the run forward, by at most one publication, and only
\* adds to the records collected.
StepMovesForward ==
  /\ ~Done
  /\ \/ RunMeasure'[1] > RunMeasure[1]
     \/ RunMeasure'[1] = RunMeasure[1] /\ RunMeasure'[2] > RunMeasure[2]
  /\ pub_index' \in {pub_index, pub_index + 1}
  /\ pub_index' <= Len(author_publications) + 1
  /\ Len(all_citations_data') >= Len(all_citations_data)
  /\ SubSeq(all_citations_data', 1, Len(all_citations_data)) = all_citations_data

\* C14 as stated: before the fetch for a publication begins, the citing
\* works of every earlier publication are classified and aggregated.
C14_ClassifiedBeforeNextFetch ==
  /\ InDiscoveryOrder
  /\ EndsWithReport
  /\ \A p, q \in PubIndexes :
       (p < q /\ RequestsFor(q) # <<>>) =>
         Cardinality(RecordsOf(p)) = Len(RowsFrom(p))

\* C14: publications are processed one at a time in discovery order; for
\* each, fetching its citing works, normalizing their authors and adding
\* their records to the table complete before the fetch for the next one
\* begins; classification and aggregation happen once, over the whole table,
\* after the last publication; every step moves the run forward and it ends
\* with every publication processed and the report printed.
C14_CollectThenClassify ==
  /\ [](/\ InDiscoveryOrder
        /\ CollectedBeforeNextFetch
        /\ ClassifiedAfterTheLoop
        /\ EndsWithReport)
  /\ [][StepMovesForward]_vars

\* The fetch for the second publication is under way, the records of the
\* first are in the table and none is classified yet.
C14_Witness ==
  /\ pc = "fetching"
  /\ pub_index = 2
  /\ fetch.pc = "loop"
  /\ RequestsFor(2) # <<>>
  /\ RowsFrom(1) # <<>>
  /\ citations_df = <<>>

(***************************************************************************)
(* Claims relating the two policies.                                       *)
(***************************************************************************)
\* The verdict on the row under a policy.
VerdictUnder(last_author_only) == check_self_citation(row, last_author_only)

\* The citing lists that are self-citations of the row's original list
\* under a policy: the records of one publication cited by every list.
SelfCitingLists(last_author_only) ==
  {c \in AuthorLists :
     check_self_citation([original_paper_normalized_authors |-> Orig,
                          citing_paper_normalized_authors |-> c],
                         last_author_only) = Bool(TRUE)}

\* C16: a pair of author lists that is a self-citation under LastAuthorOnly
\* is one under AnyAuthorOverlap, so over the same records the count of
\* self-citations under LastAuthorOnly is at most that under AnyAuthorOverlap.
C16_LastAuthorImpliesAnyAuthor ==
  Classified =>
    /\ VerdictUnder(TRUE) = Bool(TRUE) => VerdictUnder(FALSE) = Bool(TRUE)
    /\ (last_author_is_self_source /\ is_self_citation = Bool(TRUE)) =>
         VerdictUnder(FALSE) = Bool(TRUE)
    /\ SelfCitingLists(TRUE) \subseteq SelfCitingLists(FALSE)
    /\ Cardinality(SelfCitingLists(TRUE)) <= Cardinality(SelfCitingLists(FALSE))

\* A row true under LastAuthorOnly, and an original list for which fewer
\* citing lists count under LastAuthorOnly than under AnyAuthorOverlap.
C16_Witness ==
  /\ Classified
  /\ last_author_is_self_source
  /\ is_self_citation = Bool(TRUE)
  /\ Len(Orig) > 1
  /\ Cardinality(SelfCitingLists(TRUE)) < Cardinality(SelfCitingLists(FALSE))

====
